---- MODULE Spec2Model ----
(***************************************************************************)
(* Model of server/core/config/raw/step.go: the raw workflow Step, its     *)
(* decoding (unmarshalGeneric), validation (Validate), normalisation       *)
(* (ToValid) and re-encoding (marshalGeneric).                             *)
(*                                                                         *)
(* Representation.                                                         *)
(*  - A Go pointer or map field is a sequence of length 0 (nil) or 1 (the  *)
(*    value): Key = <<>> is a nil *string, Map = << m >> a non-nil map m.  *)
(*  - A Go map is a function whose DOMAIN is its key set.                  *)
(*  - A Go error is <<>> (nil) or << text >>.                              *)
(*  - A value handed to the decoder (the YAML/JSON document node) is a     *)
(*    tagged tree: [str |-> s], [list |-> q], [map |-> f].                 *)
(*  - Go's randomised map iteration is an explicit parameter: the order    *)
(*    (a permutation of the key set) in which a range statement yields.    *)
(***************************************************************************)
EXTENDS Integers, Sequences, FiniteSets, TLC

VARIABLES s, input, derr, vres, canon, out, decodes

vars == <<s, input, derr, vres, canon, out, decodes>>

(***************************************************************************)
(* Constants of the package (step.go lines 15-32) and of package valid.    *)
(***************************************************************************)
ExtraArgsKey == "extra_args"
NameArgKey == "name"
CommandArgKey == "command"
ValueArgKey == "value"
OutputArgKey == "output"
RunStepName == "run"
PlanStepName == "plan"
ShowStepName == "show"
PolicyCheckStepName == "policy_check"
ApplyStepName == "apply"
InitStepName == "init"
EnvStepName == "env"
MultiEnvStepName == "multienv"
ImportStepName == "import"
StateRmStepName == "state_rm"
ShellArgKey == "shell"

PostProcessRunOutputShow == "show"
PostProcessRunOutputHide == "hide"
PostProcessRunOutputStripRefreshing == "strip_refreshing"
AllowedRunShellValues == <<"sh", "bash", "dash", "ksh">>

(***************************************************************************)
(* Bounds of the explored input universe.                                  *)
(***************************************************************************)
MaxAttrs == 3
MaxExtraArgs == 2
MaxDecodes == 3

(***************************************************************************)
(* Library helpers: sort.Strings, strings.Join, %q, %d, utils.SlicesContains*)
(***************************************************************************)
\* Every string of the universe, in the byte order sort.Strings uses.
StrOrder ==
  <<"", "apply", "command", "env", "extra_args", "foo", "import", "init",
    "multienv", "name", "output", "plan", "policy_check", "run", "shell",
    "show", "state_rm", "value", "zzz">>

Rank(str) == CHOOSE i \in 1..Len(StrOrder) : StrOrder[i] = str

RemoveAt(q, i) == SubSeq(q, 1, i - 1) \o SubSeq(q, i + 1, Len(q))

\* Variant: the keys are left in iteration order.
SortStringsNone(q) == q

RECURSIVE SortStrings(_)
SortStrings(q) ==
  IF q = <<>> THEN <<>>
  ELSE LET i == CHOOSE i \in 1..Len(q) :
                  \A j \in 1..Len(q) : Rank(q[i]) <= Rank(q[j])
       IN <<q[i]>> \o SortStrings(RemoveAt(q, i))

RECURSIVE Join(_, _)
Join(q, sep) ==
  IF q = <<>> THEN ""
  ELSE IF Len(q) = 1 THEN q[1]
  ELSE q[1] \o sep \o Join(Tail(q), sep)

Quote(str) == "\"" \o str \o "\""

SlicesContains(q, e) == \E i \in 1..Len(q) : q[i] = e

RECURSIVE Perms(_)
Perms(S) ==
  IF S = {} THEN {<<>>}
  ELSE UNION {{<<e>> \o p : p \in Perms(S \ {e})} : e \in S}

Err(text) == <<text>>
NoErr == <<>>

(***************************************************************************)
(* The Step struct (lines 69-79) and len() of its map fields.              *)
(***************************************************************************)
ZeroStep == [Key |-> <<>>, CommandMap |-> <<>>, Map |-> <<>>, StringVal |-> <<>>]

len(field) == IF field = <<>> THEN 0 ELSE Cardinality(DOMAIN field[1])

(***************************************************************************)
(* The decoder callback: unmarshal(&v) succeeds when the document node has *)
(* the shape of v's static type, and then yields the typed value.          *)
(***************************************************************************)
IsStr(x) == "str" \in DOMAIN x
IsList(x) == "list" \in DOMAIN x
IsMap(x) == "map" \in DOMAIN x

\* var singleString string (line 365)
FitsString(x) == IsStr(x)
\* var step map[string]map[string][]string (line 377)
FitsMapMapList(x) ==
  /\ IsMap(x)
  /\ \A k \in DOMAIN x.map :
       /\ IsMap(x.map[k])
       /\ \A a \in DOMAIN x.map[k].map : IsList(x.map[k].map[a])
\* var envStep map[string]map[string]string (line 389)
FitsMapMapString(x) ==
  /\ IsMap(x)
  /\ \A k \in DOMAIN x.map :
       /\ IsMap(x.map[k])
       /\ \A a \in DOMAIN x.map[k].map : IsStr(x.map[k].map[a])
\* var runStep map[string]string (line 400)
FitsMapString(x) ==
  /\ IsMap(x)
  /\ \A k \in DOMAIN x.map : IsStr(x.map[k])

AsMapMapList(x) ==
  [k \in DOMAIN x.map |-> [a \in DOMAIN x.map[k].map |-> x.map[k].map[a].list]]
AsMapMapString(x) ==
  [k \in DOMAIN x.map |-> [a \in DOMAIN x.map[k].map |-> x.map[k].map[a].str]]
AsMapString(x) == [k \in DOMAIN x.map |-> x.map[k].str]

\* The error of the last attempt (line 407); its text is the decoder's.
UnmarshalErr == Err("unmarshal error")

\* Variant: the map of strings is attempted before the map of string lists.
unmarshalBranchAttrFirst(x) ==
  IF FitsString(x) THEN "Key"
  ELSE IF FitsMapMapString(x) THEN "CommandMap"
  ELSE IF FitsMapMapList(x) THEN "Map"
  ELSE IF FitsMapString(x) THEN "StringVal"
  ELSE "error"

\* Which of the four attempts of unmarshalGeneric succeeds first.
unmarshalBranch(x) ==
  IF FitsString(x) THEN "Key"
  ELSE IF FitsMapMapList(x) THEN "Map"
  ELSE IF FitsMapMapString(x) THEN "CommandMap"
  ELSE IF FitsMapString(x) THEN "StringVal"
  ELSE "error"

\* unmarshalGeneric on receiver st: the receiver afterwards and the error.
unmarshalGeneric(st, x) ==
  LET b == unmarshalBranch(x) IN
  CASE b = "Key" -> [step |-> [st EXCEPT !.Key = <<x.str>>], err |-> NoErr]
    [] b = "Map" -> [step |-> [st EXCEPT !.Map = <<AsMapMapList(x)>>], err |-> NoErr]
    [] b = "CommandMap" ->
         [step |-> [st EXCEPT !.CommandMap = <<AsMapMapString(x)>>], err |-> NoErr]
    [] b = "StringVal" ->
         [step |-> [st EXCEPT !.StringVal = <<AsMapString(x)>>], err |-> NoErr]
    [] OTHER -> [step |-> st, err |-> UnmarshalErr]

(***************************************************************************)
(* Validate (lines 103-293).                                               *)
(***************************************************************************)
validStepName(stepName) ==
  \/ stepName = InitStepName
  \/ stepName = PlanStepName
  \/ stepName = ApplyStepName
  \/ stepName = EnvStepName
  \/ stepName = MultiEnvStepName
  \/ stepName = ShowStepName
  \/ stepName = PolicyCheckStepName
  \/ stepName = ImportStepName
  \/ stepName = StateRmStepName

validStep(str) ==
  IF ~validStepName(str)
  THEN Err(Quote(str) \o " is not a valid step type, maybe you omitted the 'run' key")
  ELSE NoErr

SingleKeyErr(keys) ==
  Err("step element can only contain a single key, found " \o ToString(Len(keys))
      \o ": " \o Join(keys, ","))

\* elem: the map; keyIter: the order in which `range elem` yields its keys;
\* argIter: the order in which `range args` yields the keys of the sole value.
extraArgs(elem, keyIter, argIter) ==
  LET keys == SortStrings(keyIter) IN
  IF Len(keys) > 1 THEN SingleKeyErr(keys)
  ELSE IF keyIter = <<>> THEN NoErr
  ELSE \* at most one key is left: the loop body runs once
    LET stepName == keyIter[1]
        argKeys == SortStrings(argIter)
    IN IF ~validStepName(stepName)
       THEN Err(Quote(stepName) \o " is not a valid step type")
       ELSE IF Len(argKeys) > 1
       THEN Err("built-in steps only support a single " \o ExtraArgsKey
                \o " key, found " \o ToString(Len(argKeys)) \o ": "
                \o Join(argKeys, ","))
       ELSE IF argIter # <<>> /\ argIter[1] # ExtraArgsKey
       THEN Err("built-in steps only support a single " \o ExtraArgsKey
                \o " key, found " \o Quote(argIter[1]) \o " in step " \o stepName)
       ELSE NoErr

EnvAllowedKey(k) ==
  k = NameArgKey \/ k = CommandArgKey \/ k = ValueArgKey \/ k = ShellArgKey

\* case EnvStepName (lines 183-211)
envStep(argIter) ==
  LET argKeys == SortStrings(argIter)
      bad == {i \in 1..Len(argKeys) : ~EnvAllowedKey(argKeys[i])}
  IN IF bad # {}
     THEN LET i == CHOOSE i \in bad : \A j \in bad : i <= j
          IN Err("env steps only support keys " \o Quote(NameArgKey) \o ", "
                 \o Quote(ValueArgKey) \o ", " \o Quote(CommandArgKey) \o " and "
                 \o Quote(ShellArgKey) \o ", found key " \o Quote(argKeys[i]))
     ELSE IF ~SlicesContains(argKeys, NameArgKey)
     THEN Err("env steps must have a " \o Quote(NameArgKey) \o " key set")
     ELSE IF SlicesContains(argKeys, ValueArgKey) /\ SlicesContains(argKeys, CommandArgKey)
     THEN Err("env steps only support one of the " \o Quote(ValueArgKey) \o " or "
              \o Quote(CommandArgKey) \o " keys, found both")
     ELSE IF SlicesContains(argKeys, ShellArgKey) /\ ~SlicesContains(argKeys, CommandArgKey)
     THEN Err("env steps only support " \o Quote(ShellArgKey)
              \o " key in combination with " \o Quote(CommandArgKey) \o " key")
     ELSE NoErr

\* Variant: multienv accepts the output values of run.
OutputAllowedAsRun(stepName, v) ==
  IF stepName = RunStepName \/ stepName = MultiEnvStepName
  THEN v = PostProcessRunOutputShow \/ v = PostProcessRunOutputHide
       \/ v = PostProcessRunOutputStripRefreshing
  ELSE TRUE

\* The output values each step kind accepts (lines 223-229).
OutputAllowed(stepName, v) ==
  IF stepName = RunStepName
  THEN v = PostProcessRunOutputShow \/ v = PostProcessRunOutputHide
       \/ v = PostProcessRunOutputStripRefreshing
  ELSE IF stepName = MultiEnvStepName
  THEN v = PostProcessRunOutputShow \/ v = PostProcessRunOutputHide
  ELSE TRUE

OutputErr(stepName) ==
  IF stepName = RunStepName
  THEN Err("run step " \o Quote(OutputArgKey) \o " option must be one of "
           \o Quote(PostProcessRunOutputShow) \o ", " \o Quote(PostProcessRunOutputHide)
           \o ", or " \o Quote(PostProcessRunOutputStripRefreshing))
  ELSE Err("multienv step " \o Quote(OutputArgKey) \o " option must be "
           \o Quote(PostProcessRunOutputShow) \o " or " \o Quote(PostProcessRunOutputHide))

\* case RunStepName, MultiEnvStepName (lines 212-251)
runOrMultiEnv(stepName, args, argIter) ==
  LET known == {CommandArgKey, OutputArgKey, ShellArgKey}
      \* the copy after the three deletes, in the order its range yields
      restIter == SelectSeq(argIter, LAMBDA k : k \notin known)
  IN IF CommandArgKey \notin DOMAIN args
     THEN Err(Quote(stepName) \o " step must have a " \o Quote(CommandArgKey) \o " key set")
     ELSE IF OutputArgKey \in DOMAIN args /\ ~OutputAllowed(stepName, args[OutputArgKey])
     THEN OutputErr(stepName)
     ELSE IF ShellArgKey \in DOMAIN args
             /\ ~SlicesContains(AllowedRunShellValues, args[ShellArgKey])
     THEN Err("run step " \o Quote(ShellArgKey) \o " value " \o Quote(args[ShellArgKey])
              \o " is not supported, supported values are: ["
              \o Join(AllowedRunShellValues, ", ") \o "]")
     ELSE IF Len(restIter) > 0
     THEN Err(Quote(stepName) \o " steps only support keys " \o Quote(CommandArgKey)
              \o ", " \o Quote(OutputArgKey) \o " and " \o Quote(ShellArgKey)
              \o ", found extra keys " \o Quote(Join(SortStrings(restIter), ",")))
     ELSE NoErr

envOrRunOrMultiEnvStep(elem, keyIter, argIter) ==
  LET keys == SortStrings(keyIter) IN
  IF Len(keys) > 1 THEN SingleKeyErr(keys)
  ELSE IF Len(keys) = 0 THEN Err("step element must contain at least 1 key")
  ELSE LET stepName == keys[1]
           args == elem[keys[1]]
       IN IF stepName = EnvStepName THEN envStep(argIter)
          ELSE IF stepName = RunStepName \/ stepName = MultiEnvStepName
          THEN runOrMultiEnv(stepName, args, argIter)
          ELSE Err(Quote(stepName) \o " is not a valid step type")

runOrMultiEnvStep(elem, keyIter) ==
  LET keys == SortStrings(keyIter) IN
  IF Len(keys) > 1 THEN SingleKeyErr(keys)
  ELSE IF keyIter = <<>> THEN NoErr
  ELSE IF ~(keyIter[1] = RunStepName \/ keyIter[1] = MultiEnvStepName)
  THEN Err(Quote(keyIter[1]) \o " is not a valid step type")
  ELSE NoErr

\* The field Validate dispatches on (lines 280-292).
ValidateBranch(st) ==
  IF st.Key # <<>> THEN "Key"
  ELSE IF len(st.Map) > 0 THEN "Map"
  ELSE IF len(st.CommandMap) > 0 THEN "CommandMap"
  ELSE IF len(st.StringVal) > 0 THEN "StringVal"
  ELSE "none"

Validate(st, keyIter, argIter) ==
  LET b == ValidateBranch(st) IN
  CASE b = "Key" -> validStep(st.Key[1])
    [] b = "Map" -> extraArgs(st.Map[1], keyIter, argIter)
    [] b = "CommandMap" -> envOrRunOrMultiEnvStep(st.CommandMap[1], keyIter, argIter)
    [] b = "StringVal" -> runOrMultiEnvStep(st.StringVal[1], keyIter)
    [] OTHER -> Err("step element is empty")

(***************************************************************************)
(* ToValid (lines 295-348). valid.Step has the fields assigned here.       *)
(***************************************************************************)
ZeroValidStep ==
  [StepName |-> "", ExtraArgs |-> <<>>, EnvVarName |-> "", EnvVarValue |-> "",
   RunCommand |-> "", Output |-> "", RunShell |-> ""]

\* m[k] of a Go map[string]string: the zero value when k is absent.
Index(m, k) == IF k \in DOMAIN m THEN m[k] ELSE ""
\* m[k] of a Go map[string][]string: nil (the empty slice) when k is absent.
IndexList(m, k) == IF k \in DOMAIN m THEN m[k] ELSE <<>>

\* The field ToValid converts (lines 297, 304, 324, 336, 347).
ToValidBranch(st) ==
  IF st.Key # <<>> THEN "Key"
  ELSE IF len(st.CommandMap) > 0 THEN "CommandMap"
  ELSE IF len(st.Map) > 0 THEN "Map"
  ELSE IF len(st.StringVal) > 0 THEN "StringVal"
  ELSE "none"

\* Variant: the default applies to every step name.
DefaultOutputAnyStep(stepName, output) ==
  IF output = "" THEN PostProcessRunOutputShow ELSE output

\* Default output of an attribute-map step (lines 316-318).
DefaultOutput(stepName, output) ==
  IF stepName = RunStepName /\ output = "" THEN PostProcessRunOutputShow ELSE output

\* first: the key the range statement of the taken branch yields first.
ToValid(st, first) ==
  LET b == ToValidBranch(st) IN
  CASE b = "Key" ->
         [panicked |-> FALSE, step |-> [ZeroValidStep EXCEPT !.StepName = st.Key[1]]]
    [] b = "CommandMap" ->
         LET stepArgs == st.CommandMap[1][first] IN
         [panicked |-> FALSE,
          step |-> [ZeroValidStep EXCEPT
                      !.StepName = first,
                      !.EnvVarName = Index(stepArgs, NameArgKey),
                      !.RunCommand = Index(stepArgs, CommandArgKey),
                      !.EnvVarValue = Index(stepArgs, ValueArgKey),
                      !.Output = DefaultOutput(first, Index(stepArgs, OutputArgKey)),
                      !.RunShell = Index(stepArgs, ShellArgKey)]]
    [] b = "Map" ->
         [panicked |-> FALSE,
          step |-> [ZeroValidStep EXCEPT
                      !.StepName = first,
                      !.ExtraArgs = IndexList(st.Map[1][first], ExtraArgsKey)]]
    [] b = "StringVal" ->
         [panicked |-> FALSE,
          step |-> [ZeroValidStep EXCEPT
                      !.StepName = first,
                      !.RunCommand = st.StringVal[1][first]]]
    [] OTHER -> [panicked |-> TRUE, step |-> ZeroValidStep]

(***************************************************************************)
(* marshalGeneric (lines 410-424) and the encoding of what it returns.     *)
(***************************************************************************)
GStr(str) == [str |-> str]
GList(q) == [list |-> q]
GMap(f) == [map |-> f]
GNull == [null |-> TRUE]

\* The document node the encoder writes for a typed Go value.
EncodeString(str) == GStr(str)
EncodeMapString(m) == GMap([k \in DOMAIN m |-> GStr(m[k])])
EncodeMapMapString(m) ==
  GMap([k \in DOMAIN m |-> GMap([a \in DOMAIN m[k] |-> GStr(m[k][a])])])
EncodeMapMapList(m) ==
  GMap([k \in DOMAIN m |-> GMap([a \in DOMAIN m[k] |-> GList(m[k][a])])])

\* Variant: the attribute map is emitted before the extra-args map.
marshalBranchAttrFirst(st) ==
  IF len(st.StringVal) # 0 THEN "StringVal"
  ELSE IF len(st.CommandMap) # 0 THEN "CommandMap"
  ELSE IF len(st.Map) # 0 THEN "Map"
  ELSE IF st.Key # <<>> THEN "Key"
  ELSE "nil"

\* Variant: the bare name is not emitted.
marshalBranchNoKey(st) ==
  IF len(st.StringVal) # 0 THEN "StringVal"
  ELSE IF len(st.Map) # 0 THEN "Map"
  ELSE IF len(st.CommandMap) # 0 THEN "CommandMap"
  ELSE "nil"

\* The field marshalGeneric returns (lines 411-423).
marshalBranch(st) ==
  IF len(st.StringVal) # 0 THEN "StringVal"
  ELSE IF len(st.Map) # 0 THEN "Map"
  ELSE IF len(st.CommandMap) # 0 THEN "CommandMap"
  ELSE IF st.Key # <<>> THEN "Key"
  ELSE "nil"

marshalGeneric(st) ==
  LET b == marshalBranch(st) IN
  CASE b = "StringVal" -> [field |-> b, val |-> EncodeMapString(st.StringVal[1]), err |-> NoErr]
    [] b = "Map" -> [field |-> b, val |-> EncodeMapMapList(st.Map[1]), err |-> NoErr]
    [] b = "CommandMap" ->
         [field |-> b, val |-> EncodeMapMapString(st.CommandMap[1]), err |-> NoErr]
    [] b = "Key" -> [field |-> b, val |-> EncodeString(st.Key[1]), err |-> NoErr]
    [] OTHER -> [field |-> b, val |-> GNull, err |-> NoErr]

(***************************************************************************)
(* The explored document nodes.                                            *)
(***************************************************************************)
SubsetsUpTo(S, n) == {T \in SUBSET S : Cardinality(T) <= n}

RECURSIVE SeqsUpTo(_, _)
SeqsUpTo(S, n) ==
  IF n = 0 THEN {<<>>}
  ELSE SeqsUpTo(S, n - 1)
       \cup {Append(q, e) : q \in {r \in SeqsUpTo(S, n - 1) : Len(r) = n - 1}, e \in S}

BareStrings ==
  {"", "foo", InitStepName, PlanStepName, ApplyStepName, ShowStepName,
   PolicyCheckStepName, ImportStepName, StateRmStepName, EnvStepName,
   MultiEnvStepName, RunStepName}

TopKeys == {EnvStepName, RunStepName, MultiEnvStepName, InitStepName, "foo"}

AttrKeys ==
  {NameArgKey, CommandArgKey, ValueArgKey, ShellArgKey, OutputArgKey, "zzz"}

AttrVals(k) ==
  IF k = OutputArgKey
  THEN {PostProcessRunOutputShow, PostProcessRunOutputHide,
        PostProcessRunOutputStripRefreshing, "bogus"}
  ELSE IF k = ShellArgKey THEN {"bash", "fish"}
  ELSE {"v"}

AllAttrVals == UNION {AttrVals(k) : k \in AttrKeys}

\* name -> string attribute maps with 1..MaxAttrs keys
StringAttrNodes ==
  UNION {{GMap([k \in K |-> GStr(f[k])]) :
            f \in {g \in [K -> AllAttrVals] : \A k \in K : g[k] \in AttrVals(k)}} :
         K \in SubsetsUpTo(AttrKeys, MaxAttrs) \ {{}}}

ListKeys == {ExtraArgsKey, "zzz"}

ListVals(k) ==
  IF k = ExtraArgsKey THEN SeqsUpTo({"-a", "-b"}, MaxExtraArgs)
  ELSE {<<>>, <<"-a">>}

\* name -> string list attribute maps, the empty map included
ListAttrNodes ==
  UNION {{GMap([k \in K |-> GList(f[k])]) :
            f \in {g \in [K -> ListVals(ExtraArgsKey)] : \A k \in K : g[k] \in ListVals(k)}} :
         K \in SUBSET ListKeys}

\* an attribute map no Go type of unmarshalGeneric fits
MixedAttrNode ==
  GMap((CommandArgKey :> GStr("v")) @@ (ExtraArgsKey :> GList(<<"-a">>)))

SingleKeyNodes ==
  {GMap(k :> v) : k \in TopKeys,
                  v \in StringAttrNodes \cup ListAttrNodes
                        \cup {MixedAttrNode, GStr("cmd"), GStr("")}}

PairKeys == {EnvStepName, RunStepName, "foo"}

PairVals ==
  {GMap(<<>>), GMap(CommandArgKey :> GStr("v")),
   GMap(ExtraArgsKey :> GList(<<"-a">>)), GStr("cmd")}

TwoKeyNodes ==
  {GMap((a :> va) @@ (b :> vb)) :
     a \in PairKeys, b \in PairKeys \ {"foo"}, va \in PairVals, vb \in PairVals}

Inputs ==
  {GStr(str) : str \in BareStrings}
  \cup SingleKeyNodes
  \cup {n \in TwoKeyNodes : Cardinality(DOMAIN n.map) = 2}
  \cup {GMap(<<>>), GList(<<"plan">>)}

\* The nodes decoded into a Step that is used again.
ReuseInputs ==
  {GStr(PlanStepName), GStr("foo"),
   GMap(<<>>),
   GMap(InitStepName :> GMap(ExtraArgsKey :> GList(<<"-a">>))),
   GMap(InitStepName :> GMap("zzz" :> GList(<<>>))),
   GMap(RunStepName :> GMap(CommandArgKey :> GStr("v"))),
   GMap("foo" :> GMap(CommandArgKey :> GStr("v"))),
   GMap((EnvStepName :> GMap(NameArgKey :> GStr("v")))
        @@ (RunStepName :> GMap(CommandArgKey :> GStr("v")))),
   GMap(RunStepName :> GStr("cmd")),
   GMap("foo" :> GStr("cmd")),
   GList(<<"plan">>)}

(***************************************************************************)
(* State: one Step value and the results of the calls made on it.          *)
(***************************************************************************)
NotCalled == [called |-> FALSE]

Init ==
  /\ s = ZeroStep
  /\ input = GNull
  /\ derr = NotCalled
  /\ vres = NotCalled
  /\ canon = NotCalled
  /\ out = NotCalled
  /\ decodes = 0

\* var st Step: a fresh Step replaces the one in use.
NewStep ==
  /\ decodes > 0
  /\ s' = ZeroStep
  /\ input' = GNull
  /\ derr' = NotCalled
  /\ vres' = NotCalled
  /\ canon' = NotCalled
  /\ out' = NotCalled
  /\ decodes' = 0

\* UnmarshalYAML / UnmarshalJSON of node x into the Step.
Unmarshal(X, max) ==
  /\ decodes < max
  /\ \E x \in X :
       LET r == unmarshalGeneric(s, x) IN
       /\ s' = r.step
       /\ input' = x
       /\ derr' = [called |-> TRUE, err |-> r.err]
  /\ vres' = NotCalled
  /\ canon' = NotCalled
  /\ out' = NotCalled
  /\ decodes' = decodes + 1

UnmarshalFresh == Unmarshal(Inputs, 1)

UnmarshalReuse == Unmarshal(ReuseInputs, MaxDecodes)

\* The map Validate ranges over, and the value of its sole key.
ValidatedMap(st) ==
  LET b == ValidateBranch(st) IN
  IF b = "Map" THEN st.Map[1]
  ELSE IF b = "CommandMap" THEN st.CommandMap[1]
  ELSE IF b = "StringVal" THEN st.StringVal[1]
  ELSE <<>>

KeyIters(st) == Perms(DOMAIN ValidatedMap(st))

ArgIters(st) ==
  LET m == ValidatedMap(st) IN
  IF ValidateBranch(st) \in {"Map", "CommandMap"} /\ Cardinality(DOMAIN m) = 1
  THEN Perms(DOMAIN m[CHOOSE k \in DOMAIN m : TRUE])
  ELSE {<<>>}

CallValidate ==
  /\ \E keyIter \in KeyIters(s) : \E argIter \in ArgIters(s) :
       vres' = [called |-> TRUE, field |-> ValidateBranch(s),
                err |-> Validate(s, keyIter, argIter)]
  /\ UNCHANGED <<s, input, derr, canon, out, decodes>>

\* The keys the range statement of ToValid's branch may yield first.
FirstKeys(st) ==
  LET b == ToValidBranch(st) IN
  IF b = "CommandMap" THEN DOMAIN st.CommandMap[1]
  ELSE IF b = "Map" THEN DOMAIN st.Map[1]
  ELSE IF b = "StringVal" THEN DOMAIN st.StringVal[1]
  ELSE {""}

CallToValid ==
  /\ \E first \in FirstKeys(s) :
       LET r == ToValid(s, first) IN
       canon' = [called |-> TRUE, field |-> ToValidBranch(s),
                 panicked |-> r.panicked, step |-> r.step]
  /\ UNCHANGED <<s, input, derr, vres, out, decodes>>

CallMarshal ==
  /\ LET r == marshalGeneric(s) IN
       out' = [called |-> TRUE, field |-> r.field, val |-> r.val, err |-> r.err]
  /\ UNCHANGED <<s, input, derr, vres, canon, decodes>>

\* A Step decoded once from a document, then validated, converted, re-encoded.
Next == UnmarshalFresh \/ CallValidate \/ CallToValid \/ CallMarshal \/ NewStep

Spec == Init /\ [][Next]_vars

\* The same Step decoded into more than once.
NextReuse == UnmarshalReuse \/ CallValidate \/ CallToValid \/ CallMarshal \/ NewStep

SpecReuse == Init /\ [][NextReuse]_vars

(***************************************************************************)
(* Vocabulary of the properties.                                           *)
(***************************************************************************)
Fields == {"Key", "Map", "CommandMap", "StringVal"}

\* A field is populated when the code treats it as present: a non-nil Key,
\* a map with at least one entry.
IsPopulated(st, f) == IF f = "Key" THEN st.Key # <<>> ELSE len(st[f]) > 0

PopulatedFields(st) == {f \in Fields : IsPopulated(st, f)}

\* A field is assigned when it is not nil.
AssignedFields(st) == {f \in Fields : st[f] # <<>>}

SoleKey(m) == CHOOSE k \in DOMAIN m : TRUE

IsSorted(q) == \A i \in 1..Len(q) : \A j \in 1..Len(q) : i < j => Rank(q[i]) < Rank(q[j])

Sorted(S) == CHOOSE q \in Perms(S) : IsSorted(q)

ValidatedOk == vres.called /\ vres.err = NoErr

DecodedOk == derr.called /\ derr.err = NoErr

BuiltinStepNames ==
  {InitStepName, PlanStepName, ApplyStepName, ShowStepName, PolicyCheckStepName,
   ImportStepName, StateRmStepName}

(***************************************************************************)
(* C1. Round trip.                                                         *)
(***************************************************************************)
\* C1 (as stated): whenever unmarshalGeneric decodes a node x into a fresh
\* Step without error, marshalGeneric of that Step returns a value
\* structurally equal to x, the empty string and the empty map included.
C1_RoundTripAll ==
  (DecodedOk /\ decodes = 1 /\ out.called) => (out.err = NoErr /\ out.val = input)

\* C1 (amended): the round trip holds for every decodable node except the
\* empty map; the empty map decodes into an empty Map, which marshalGeneric
\* encodes as null.
C1_RoundTrip ==
  (DecodedOk /\ decodes = 1 /\ out.called) =>
    /\ out.err = NoErr
    /\ out.val = IF input = GMap(<<>>) THEN GNull ELSE input

\* A two-level map of string lists was decoded and encoded back to itself.
C1_Witness ==
  /\ DecodedOk /\ decodes = 1 /\ out.called
  /\ IsMap(input) /\ FitsMapMapList(input)
  /\ \E k \in DOMAIN input.map : ExtraArgsKey \in DOMAIN input.map[k].map
  /\ out.val = input

(***************************************************************************)
(* C2. Validation of the bare name.                                        *)
(***************************************************************************)
RunKeyOmittedErr(str) ==
  Err(Quote(str) \o " is not a valid step type, maybe you omitted the 'run' key")

\* C2: when Key is the only populated field, Validate succeeds exactly for
\* the builtin argument-free step names, and for every other string (env,
\* multienv and run included) fails with the message suggesting that the
\* 'run' key was omitted.
C2_BareNameBuiltinOnly ==
  (vres.called /\ PopulatedFields(s) = {"Key"}) =>
    /\ (vres.err = NoErr) <=> (s.Key[1] \in BuiltinStepNames)
    /\ (s.Key[1] \notin BuiltinStepNames) => (vres.err = RunKeyOmittedErr(s.Key[1]))

(***************************************************************************)
(* C3. Validation of the extra-args map.                                   *)
(***************************************************************************)
ExtraArgsRule(m) ==
  /\ Cardinality(DOMAIN m) = 1
  /\ validStepName(SoleKey(m))
  /\ DOMAIN m[SoleKey(m)] = {ExtraArgsKey}

\* C3: when Map is the only populated field, Validate succeeds exactly when
\* the map has one top-level key, a valid step name, whose value has exactly
\* one attribute key, extra_args; zero attribute keys are rejected.
C3_ExtraArgsRule ==
  (vres.called /\ PopulatedFields(s) = {"Map"}) =>
    ((vres.err = NoErr) <=> ExtraArgsRule(s.Map[1]))

(***************************************************************************)
(* C4. Validation of the attribute map.                                    *)
(***************************************************************************)
EnvRule(args) ==
  /\ DOMAIN args \subseteq {NameArgKey, CommandArgKey, ValueArgKey, ShellArgKey}
  /\ NameArgKey \in DOMAIN args
  /\ ~({ValueArgKey, CommandArgKey} \subseteq DOMAIN args)
  /\ (ShellArgKey \in DOMAIN args) => (CommandArgKey \in DOMAIN args)

RunKeys == {CommandArgKey, OutputArgKey, ShellArgKey}

RunRule(stepName, args) ==
  /\ CommandArgKey \in DOMAIN args
  /\ (OutputArgKey \in DOMAIN args) =>
       args[OutputArgKey] \in
         (IF stepName = RunStepName
          THEN {"show", "hide", "strip_refreshing"}
          ELSE {"show", "hide"})
  /\ (ShellArgKey \in DOMAIN args) =>
       (\E i \in 1..Len(AllowedRunShellValues) : AllowedRunShellValues[i] = args[ShellArgKey])
  /\ DOMAIN args \subseteq {CommandArgKey, OutputArgKey, ShellArgKey}

AttrMapRule(m) ==
  /\ Cardinality(DOMAIN m) = 1
  /\ \/ SoleKey(m) = EnvStepName /\ EnvRule(m[SoleKey(m)])
     \/ SoleKey(m) \in {RunStepName, MultiEnvStepName} /\ RunRule(SoleKey(m), m[SoleKey(m)])

\* C4: when CommandMap is the only populated field, Validate succeeds exactly
\* when there is one top-level key and it is env with the env rule set, or
\* run / multienv with the run rule set; any other top-level key is rejected.
C4_AttrMapRule ==
  (vres.called /\ PopulatedFields(s) = {"CommandMap"}) =>
    ((vres.err = NoErr) <=> AttrMapRule(s.CommandMap[1]))

\* A multienv step with an accepted output value passed validation.
C4_Witness ==
  /\ ValidatedOk /\ PopulatedFields(s) = {"CommandMap"}
  /\ DOMAIN s.CommandMap[1] = {MultiEnvStepName}
  /\ OutputArgKey \in DOMAIN s.CommandMap[1][MultiEnvStepName]

(***************************************************************************)
(* C5. ToValid on validated input.                                         *)
(***************************************************************************)
\* C5: for every Step on which Validate returned no error, ToValid does not
\* panic and every call returns the same canonical step, whichever key the
\* map iteration yields first.
C5_ToValidTotalDeterministic ==
  (ValidatedOk /\ canon.called) =>
    /\ ~canon.panicked
    /\ \A first \in FirstKeys(s) : ToValid(s, first).step = canon.step

(***************************************************************************)
(* C6. Precedence of marshalGeneric.                                       *)
(***************************************************************************)
FirstPopulated(st, order) ==
  LET hits == {i \in 1..Len(order) : IsPopulated(st, order[i])} IN
  IF hits = {} THEN "nil"
  ELSE order[CHOOSE i \in hits : \A j \in hits : i <= j]

EncodedField(st, f) ==
  CASE f = "StringVal" -> EncodeMapString(st.StringVal[1])
    [] f = "CommandMap" -> EncodeMapMapString(st.CommandMap[1])
    [] f = "Map" -> EncodeMapMapList(st.Map[1])
    [] f = "Key" -> EncodeString(st.Key[1])
    [] OTHER -> GNull

FirstFit(x) ==
  CASE FitsString(x) -> "Key"
    [] ~FitsString(x) /\ FitsMapMapList(x) -> "Map"
    [] ~FitsString(x) /\ ~FitsMapMapList(x) /\ FitsMapMapString(x) -> "CommandMap"
    [] ~FitsString(x) /\ ~FitsMapMapList(x) /\ ~FitsMapMapString(x) /\ FitsMapString(x)
         -> "StringVal"
    [] OTHER -> "error"

Attr(args, k) == IF k \in DOMAIN args THEN args[k] ELSE ""

Wired(st) ==
  CASE st.Key # <<>> ->
         [ZeroValidStep EXCEPT !.StepName = st.Key[1]]
    [] st.Key = <<>> /\ len(st.Map) > 0 ->
         LET k == SoleKey(st.Map[1]) IN
         [ZeroValidStep EXCEPT
            !.StepName = k,
            !.ExtraArgs = IF ExtraArgsKey \in DOMAIN st.Map[1][k]
                          THEN st.Map[1][k][ExtraArgsKey] ELSE <<>>]
    [] st.Key = <<>> /\ len(st.CommandMap) > 0 ->
         LET k == SoleKey(st.CommandMap[1])
             args == st.CommandMap[1][k]
         IN IF k = EnvStepName
            THEN [ZeroValidStep EXCEPT
                    !.StepName = k,
                    !.EnvVarName = Attr(args, NameArgKey),
                    !.EnvVarValue = Attr(args, ValueArgKey),
                    !.RunCommand = Attr(args, CommandArgKey),
                    !.RunShell = Attr(args, ShellArgKey)]
            ELSE [ZeroValidStep EXCEPT
                    !.StepName = k,
                    !.RunCommand = Attr(args, CommandArgKey),
                    !.RunShell = Attr(args, ShellArgKey),
                    !.Output = IF OutputArgKey \in DOMAIN args THEN args[OutputArgKey]
                               ELSE IF k = RunStepName THEN "show" ELSE ""]
    [] OTHER ->
         LET k == SoleKey(st.StringVal[1]) IN
         [ZeroValidStep EXCEPT !.StepName = k, !.RunCommand = st.StringVal[1][k]]

\* C8: for a validator-accepted Step with exactly one populated shape,
\* ToValid wires the canonical fields per shape: the bare name gives only
\* step_name; the extra-args map gives step_name and extra_args; env gives
\* env_var_name, env_var_value, run_command, run_shell; run / multienv give
\* run_command, run_shell and output_mode (output when present, else show for
\* run and empty for multienv); the shorthand gives step_name and
\* run_command with output_mode empty.
C8_Wiring ==
  (ValidatedOk /\ canon.called /\ Cardinality(PopulatedFields(s)) = 1) =>
    (~canon.panicked /\ canon.step = Wired(s))

\* A validated multienv attribute map without output was converted.
C8_Witness ==
  /\ ValidatedOk /\ canon.called /\ PopulatedFields(s) = {"CommandMap"}
  /\ DOMAIN s.CommandMap[1] = {MultiEnvStepName}
  /\ OutputArgKey \notin DOMAIN s.CommandMap[1][MultiEnvStepName]
  /\ canon.step.StepName = MultiEnvStepName
  /\ canon.step.Output = ""

(***************************************************************************)
(* C9. Deterministic diagnostics.                                          *)
(***************************************************************************)
\* The error a key list of the validated map must appear in, when one does.
ListedKeysErr(st) ==
  LET m == ValidatedMap(st)
      b == ValidateBranch(st)
  IN IF Cardinality(DOMAIN m) > 1
     THEN <<SingleKeyErr(Sorted(DOMAIN m))>>
     ELSE IF b = "Map" /\ Cardinality(DOMAIN m) = 1 /\ validStepName(SoleKey(m))
             /\ Cardinality(DOMAIN m[SoleKey(m)]) > 1
     THEN <<Err("built-in steps only support a single extra_args key, found "
               \o ToString(Cardinality(DOMAIN m[SoleKey(m)])) \o ": "
               \o Join(Sorted(DOMAIN m[SoleKey(m)]), ","))>>
     ELSE IF b = "CommandMap" /\ Cardinality(DOMAIN m) = 1
             /\ SoleKey(m) \in {RunStepName, MultiEnvStepName}
             /\ RunRule(SoleKey(m), [k \in DOMAIN m[SoleKey(m)] \cap RunKeys |-> m[SoleKey(m)][k]])
             /\ DOMAIN m[SoleKey(m)] \ RunKeys # {}
     THEN <<Err(Quote(SoleKey(m)) \o " steps only support keys \"command\", "
               \o "\"output\" and \"shell\", found extra keys "
               \o Quote(Join(Sorted(DOMAIN m[SoleKey(m)] \ RunKeys), ",")))>>
     ELSE <<>>

\* C9: whatever order the keys of the maps are iterated in, Validate returns
\* the same outcome and the same error text, and the key lists in the text
\* are sorted lexicographically.
C9_DeterministicDiagnostics ==
  vres.called =>
    /\ \A keyIter \in KeyIters(s) : \A argIter \in ArgIters(s) :
         vres.err = Validate(s, keyIter, argIter)
    /\ ListedKeysErr(s) # <<>> => vres.err = ListedKeysErr(s)[1]

\* Validate rejected a run step with two surplus keys, listing them sorted.
C9_Witness ==
  /\ vres.called /\ vres.field = "CommandMap"
  /\ DOMAIN s.CommandMap[1] = {RunStepName}
  /\ DOMAIN s.CommandMap[1][RunStepName] = {CommandArgKey, NameArgKey, "zzz"}
  /\ vres.err = Err("\"run\" steps only support keys \"command\", \"output\" and "
                    \o "\"shell\", found extra keys \"name,zzz\"")

(***************************************************************************)
(* C10. Validate and ToValid act on the same field.                        *)
(***************************************************************************)
\* C10: whenever Validate returned no error, the field ToValid converts is
\* the field whose rule set Validate checked, also when several fields are
\* populated.
C10_SameField ==
  (ValidatedOk /\ canon.called) => (canon.field = vres.field)

====
